---- MODULE Spec2Model ----
(***************************************************************************)
(* SubLing: the concurrent probing engine of src/src/core.py               *)
(* (SubdomainFuzzer), with the probes of src/src/resolver.py, the loader   *)
(* of src/src/utils.py and the terminal writes of src/src/ui.py.           *)
(*                                                                         *)
(* The engine runs on one asyncio event loop: a coroutine runs without     *)
(* interruption from one suspension point to the next.  The suspension     *)
(* points are queue.get() on an empty queue, queue.put() on a full queue,  *)
(* queue.join(), gather() and the four network probes.                     *)
(* asyncio.Lock.acquire() does not suspend when the lock is free, and no   *)
(* holder of print_lock suspends, so "async with self.print_lock" is part  *)
(* of the step that reaches it.  Each action below is one such step.       *)
(* While stdout is "ok" it accepts every write and shows the progress bar.  *)
(* The outer "except Exception" of process_worker is entered when the      *)
(* print of the progress bar raises, on a terminal that refuses writes.    *)
(*                                                                         *)
(* Optional values (Python's None or a value) are sequences of length at   *)
(* most one: None is << >> and the value x is << x >>.                     *)
(***************************************************************************)
EXTENDS Integers, Sequences, FiniteSets, TLC

\* ------------------------------------------------------------------ bounds
MaxWorkers == 2
MaxLines == 2

\* ------------------------------------------------------------------ values
None == << >>
Some(x) == << x >>

domain == "example.com"
Labels == {"a", "b"}
Blank == ""

\* f"{word.strip()}.{self.domain}": the label paired with the target domain.
\* The loader has already stripped the label, so strip() leaves it as it is.
Host(word) == << word, domain >>
Hosts == { Host(l) : l \in Labels }

Address == "10.0.0.1"

\* What an HTTP GET can end in: an error raised by the client, which is a
\* connection-level one (aiohttp.ClientError: refused, TLS failure), a timeout
\* (asyncio.TimeoutError) or any other Exception, or a response with a status
\* and, when the Content-Length header is an integer, a size.
Raised == [raised |-> TRUE, error |-> "connection", status |-> 0, size |-> None]
TimedOut == [raised |-> TRUE, error |-> "timeout", status |-> 0, size |-> None]
RaisedOther == [raised |-> TRUE, error |-> "other", status |-> 0, size |-> None]
Response(status, size) ==
    [raised |-> FALSE, error |-> "none", status |-> status, size |-> size]

HttpsAnswers == { Raised, TimedOut, Response(200, Some(512)) }
HttpAnswers == { Raised, TimedOut, Response(404, None) }
\* What socket.getaddrinfo under wait_for can end in: a non-empty list of
\* addresses, socket.gaierror, or asyncio.TimeoutError.
LookupOutcomes == { "resolved", "gaierror", "timeout" }
DnsAnswers == LookupOutcomes
IpAnswers == LookupOutcomes

\* What response.read() under wait_for can end in: the body (37 bytes long),
\* asyncio.TimeoutError, or an aiohttp.ClientError.
BodyAnswers == { "read", "timeout", "error" }

\* A network: for each host, the answers each probe may receive.
AnyNetwork ==
    [ h \in Hosts |-> [ dns |-> DnsAnswers, ip |-> IpAnswers, https |-> HttpsAnswers,
                        http |-> HttpAnswers, body |-> BodyAnswers ] ]

\* How a host of a deterministic network answers: each probe has one answer.
Behaviour(dns, address, https, http, body) ==
    [ dns |-> {dns}, ip |-> {address}, https |-> {https}, http |-> {http}, body |-> {body} ]

HostBehaviours ==
    { Behaviour("gaierror", "gaierror", Raised, Raised, "error"),
      Behaviour("resolved", "resolved", Raised, Raised, "error"),
      Behaviour("resolved", "gaierror", Response(200, Some(512)), Raised, "error"),
      Behaviour("resolved", "resolved", Raised, Response(404, None), "read"),
      Behaviour("resolved", "resolved", Response(200, None), Raised, "error"),
      Behaviour("resolved", "resolved", Response(503, Some(512)), Response(404, None), "error"),
      Behaviour("resolved", "resolved", RaisedOther, Response(404, None), "read") }

\* The deterministic networks: each probe's answer is a function of the host.
FixedNetworks == [ Hosts -> HostBehaviours ]

\* The behaviours in which each probe either succeeds or fails without a
\* timeout.
FailureBehaviours ==
    { Behaviour(dns, address, https, http, body) :
         dns \in {"resolved", "gaierror"}, address \in {"resolved", "gaierror"},
         https \in {Response(200, Some(512)), Raised}, http \in {Response(404, None), Raised},
         body \in {"read", "error"} }

\* The same behaviour with a timeout in place of every failure.
TimedOutVariant(b) ==
    [ dns |-> { IF o = "gaierror" THEN "timeout" ELSE o : o \in b.dns },
      ip |-> { IF o = "gaierror" THEN "timeout" ELSE o : o \in b.ip },
      https |-> { IF o = Raised THEN TimedOut ELSE o : o \in b.https },
      http |-> { IF o = Raised THEN TimedOut ELSE o : o \in b.http },
      body |-> { IF o = "error" THEN "timeout" ELSE o : o \in b.body } ]

\* The deterministic networks on which the probes of the second host time out
\* where those of the first fail.
TimeoutNetworks ==
    { [ h \in Hosts |-> IF h = Host("a") THEN b ELSE TimedOutVariant(b) ] :
         b \in FailureBehaviours }

\* ------------------------------------------------------------------ state
VARIABLES
    words,             \* what load_wordlist returned
    workers_arg,       \* the workers argument of SubdomainFuzzer(...)
    workers,           \* self.workers
    dns_only,          \* self.dns_only
    http_only,         \* self.http_only
    net,               \* the network the probes talk to
    recording,         \* whether terminal, writes and completed are kept
    stdout,            \* "ok", "broken": a pipe whose reader has gone, or
                       \* "refusing": a terminal whose writes fail
    queue,             \* the items of the asyncio.Queue; None is the sentinel
    unfinished,        \* the queue's count of items not yet task_done
    mainPc,            \* where run() is
    nput,              \* items run() has put so far, words then sentinels
    interrupted,       \* an interruption has reached run()
    wpc,               \* where each worker task is
    word,              \* each worker's dequeued word (None when it has none)
    ip,                \* each worker's local ip
    result,            \* each worker's local (proto, status, size) of check_http
    cancelRequested,   \* the tasks on which run() called cancel()
    found_subdomains,  \* self.found_subdomains
    checked_count,     \* self.checked_count
    header_printed,    \* self.header_printed
    print_lock,        \* self.print_lock is held
    terminal,          \* the rows written so far and what the cursor's row shows
    writes,            \* per host, the workers that wrote its key, in order
    completed,         \* the hosts of the candidates whose pipeline has finished
    errors,            \* the input errors run() has reported
    outfile,           \* the lines of the output file; None while it has not been opened
    saved              \* how main()'s save step went, once it has been attempted

\* terminal is what the engine has written, writes and completed are a record of
\* what it has done: the engine reads none of the three.  They are kept when
\* recording is set and stay as they start when it is not.
Record(old, new) == IF recording THEN new ELSE old

vars == << words, workers_arg, workers, dns_only, http_only, net, recording, stdout, queue, unfinished, mainPc, nput,
           interrupted, wpc, word, ip, result, cancelRequested, found_subdomains,
           checked_count, header_printed, print_lock, terminal, writes, completed, errors, outfile, saved >>

config == << words, workers_arg, workers, dns_only, http_only, net, recording, stdout >>
shared == << found_subdomains, header_printed, print_lock, terminal, writes >>
locals == << word, ip, result >>
reports == << errors, outfile, saved >>

\* A pool with one task more than self.workers.
TasksOneMore == 1..(workers + 1)

\* The worker tasks: for _ in range(self.workers).
Tasks == 1..workers

\* ------------------------------------------------------------------ loader
RECURSIVE NonBlank(_)
\* [line.strip() for line in f if line.strip()]
NonBlank(lines) ==
    IF lines = << >> THEN << >>
    ELSE IF Head(lines) = Blank THEN NonBlank(Tail(lines))
    ELSE << Head(lines) >> \o NonBlank(Tail(lines))

\* A loader that returns an empty list as it is.
EmptyWordlistAccepted(ws) == FALSE

\* if not words: raise ValueError("Wordlist is empty: ...")
EmptyWordlist(ws) == ws = << >>

\* The files a run may be given: up to MaxLines lines, each a label or blank.
Files == UNION { [ 1..n -> Labels \cup {Blank} ] : n \in 0..MaxLines }

\* The worker counts a caller passes: none, negative ones, and real ones.
WorkerCounts == (0 - 1)..MaxWorkers

\* A constructor that keeps the count it is given.
WorkersAsGiven(n) == n

\* self.workers = max(1, int(workers))
EffectiveWorkers(n) == IF n < 1 THEN 1 ELSE n

\* asyncio.Queue(maxsize=self.workers * 2)
maxsize == workers * 2

\* self.status_update_interval = max(1, self.workers // 10)
status_update_interval == IF workers \div 10 < 1 THEN 1 ELSE workers \div 10

\* self.total_words = len(words)
total_words == Len(words)

\* ------------------------------------------------------------------ probes
\* A probe that falls back to http on an https response that is an error status.
check_http_by_status(httpsAnswer, httpAnswer) ==
    IF ~httpsAnswer.raised /\ httpsAnswer.status < 400
    THEN Some([proto |-> "https", status |-> httpsAnswer.status, size |-> httpsAnswer.size])
    ELSE IF ~httpAnswer.raised
    THEN Some([proto |-> "http", status |-> httpAnswer.status, size |-> httpAnswer.size])
    ELSE None

\* An existence check that takes a lookup that timed out for a host that exists.
check_dns_unless_refused(outcome) == outcome # "gaierror"

\* check_dns: True when the lookup returned addresses; False on gaierror, on
\* timeout and on any other exception.
check_dns(outcome) == outcome = "resolved"

\* get_ip_address: the first address when the lookup returned some; None on
\* gaierror, on timeout and on any other exception.
get_ip_address(outcome) == IF outcome = "resolved" THEN Some(Address) ELSE None

\* len(content) when response.read() returned within its timeout, else None
\* (the timeout is caught at line 102, a ClientError at line 104).
read_body(outcome) == IF outcome = "read" THEN Some(37) ELSE None

\* check_http: https first, http only when the https attempt raised; the first
\* response that completes is returned with its protocol, status and size.
check_http(httpsAnswer, httpAnswer) ==
    IF ~httpsAnswer.raised
    THEN Some([proto |-> "https", status |-> httpsAnswer.status, size |-> httpsAnswer.size])
    ELSE IF ~httpAnswer.raised
    THEN Some([proto |-> "http", status |-> httpAnswer.status, size |-> httpAnswer.size])
    ELSE None

\* for protocol in ("https", "http"): the protocols check_http goes through,
\* the second one only after "continue" in a handler of the first.
protocols_tried(httpsAnswer) ==
    IF httpsAnswer.raised THEN << "https", "http" >> ELSE << "https" >>

\* get_content_size: a second GET on the known protocol; the Content-Length
\* header when it is an integer, else the length of the body read, else None.
get_content_size(answer, body) ==
    IF answer.raised THEN None
    ELSE IF answer.size # None THEN answer.size
    ELSE read_body(body)

\* A fetch that goes to https whatever protocol answered the probe.
GetAnswersHttps(h, proto) == net[h].https

\* The answers a GET on protocol proto of host h may receive.
GetAnswers(h, proto) == IF proto = "https" THEN net[h].https ELSE net[h].http

\* ------------------------------------------------------------------ table
\* The tuple (proto, status, ip, size) stored under a host.
Entry(proto, status, address, size) ==
    [proto |-> proto, status |-> status, ip |-> address, size |-> size]

\* self.found_subdomains[subdomain] = entry
Store(table, subdomain, entry) ==
    [ h \in (DOMAIN table) \cup {subdomain} |-> IF h = subdomain THEN entry ELSE table[h] ]

\* ------------------------------------------------------------------ terminal
\* A terminal row.  A found row shows the host, "[proto] status" or "[DNS]",
\* the ip when there is one and the size when there is one.
HeaderRow == [kind |-> "header", host |-> None, entry |-> Entry(None, None, None, None)]
BlankRow == [kind |-> "blank", host |-> None, entry |-> Entry(None, None, None, None)]
FooterRow == [kind |-> "footer", host |-> None, entry |-> Entry(None, None, None, None)]
FoundRow(subdomain, proto, status, address, size) ==
    [kind |-> "found", host |-> subdomain,
     entry |-> Entry(proto, IF proto # None THEN status ELSE None, address, size)]

\* print() on a pipe whose reader has gone raises BrokenPipeError, and on a
\* terminal that refuses the write another OSError.
PrintRaises == stdout # "ok"

\* sys.stdout.isatty(): a pipe is not a terminal.
isatty == stdout # "broken"

\* print_progress_bar returns at once when stdout is not a terminal; on a
\* terminal: "\r" and erase-line, then the bar, no newline: the bar replaces
\* what the cursor's row shows.
print_progress_bar(t, current) == IF isatty THEN [t EXCEPT !.cur = Some(current)] ELSE t

\* A report that puts the newest found row on top.
display_found_on_top(t, headerDone, subdomain, proto, status, address, size, update) ==
    [lines |-> << FoundRow(subdomain, proto, status, address, size) >> \o t.lines, cur |-> None]

\* display_found: with update the cursor first moves up one row ("\033[F");
\* the row the cursor is on is blanked; the header is printed if it has not
\* been; the found row is printed with a newline.
display_found(t, headerDone, subdomain, proto, status, address, size, update) ==
    LET row == FoundRow(subdomain, proto, status, address, size) IN
    IF update /\ Len(t.lines) > 0
    THEN [t EXCEPT !.lines = [t.lines EXCEPT ![Len(t.lines)] = row]]
    ELSE IF headerDone
    THEN [lines |-> Append(t.lines, row), cur |-> None]
    ELSE [lines |-> t.lines \o << BlankRow, HeaderRow, row >>, cur |-> None]

\* The end of run(): the cursor's row is blanked and, if the header was
\* printed, the footer follows.
print_footer(t, headerDone) ==
    IF headerDone THEN [lines |-> Append(t.lines, FooterRow), cur |-> None]
    ELSE [t EXCEPT !.cur = None]

\* ------------------------------------------------------------------ save_results
\* The order of Python's str comparison on the labels.
LabelOrder == << "a", "b" >>
Rank(label) == CHOOSE i \in DOMAIN LabelOrder : LabelOrder[i] = label

\* subdomain1 < subdomain2 as strings: the hosts share the domain, so the
\* labels decide.
Precedes(subdomain1, subdomain2) == Rank(subdomain1[1]) < Rank(subdomain2[1])

RECURSIVE sorted(_)
\* sorted(found_subdomains.items()), as the sequence of its keys: the keys are
\* distinct, so the values are never compared.
sorted(keys) ==
    IF keys = {} THEN << >>
    ELSE LET first == CHOOSE k \in keys : \A other \in keys : ~Precedes(other, k)
         IN << first >> \o sorted(keys \ {first})

\* "for subdomain, (proto, status, ip) in ...": the unpacking of an entry into
\* three names succeeds only on an entry of three elements.
Unpacks(entry) == Cardinality(DOMAIN entry) = 3

\* The line written for an entry, as the text before the first bracket and
\* the contents of the brackets that follow it.
Line(subdomain, entry) ==
    IF entry.proto # None THEN << subdomain, entry.proto[1], entry.status[1] >>
    ELSE IF entry.ip # None THEN << subdomain, "DNS", entry.ip[1] >>
    ELSE << subdomain, "DNS" >>

\* save_results(output_file, found_subdomains) up to its handler: open() fails
\* on a path that cannot be written; otherwise the file is truncated and the
\* entries are written in sorted order until one does not unpack.  The lines
\* written before an exception are kept: the with block closes the file.
save_results(table, writable) ==
    IF ~writable THEN [file |-> None, raised |-> Some("OSError")]
    ELSE LET keys == sorted(DOMAIN table)
             bad == { i \in DOMAIN keys : ~Unpacks(table[keys[i]]) }
             stop == IF bad = {} THEN Len(keys) + 1
                     ELSE CHOOSE i \in bad : \A j \in bad : i <= j
         IN [file |-> Some([i \in 1..(stop - 1) |-> Line(keys[i], table[keys[i]])]),
             raised |-> IF bad = {} THEN None ELSE Some("ValueError")]

\* The entries of the type save_results declares, (proto, status, ip), and the
\* tables of them.
DeclaredEntries ==
    { [proto |-> r[1], status |-> r[2], ip |-> address] :
         r \in { << None, None >>, << Some("https"), Some(200) >>, << Some("http"), Some(404) >> },
         address \in { None, Some(Address) } }
DeclaredTables == UNION { [ keys -> DeclaredEntries ] : keys \in SUBSET Hosts }

\* A handler that lets the exception through as it is.
SaveErrorUnwrapped(cause) == cause

\* except Exception as e: raise IOError(f"Error saving results: {e}")
SaveError(cause) == "IOError"

\* ------------------------------------------------------------------ initial state
\* SubdomainFuzzer(...) called with a worker count of the set counts.
InitConstructed(counts) ==
    /\ words = << >>
    /\ workers_arg \in counts
    /\ workers = EffectiveWorkers(workers_arg)
    /\ dns_only \in BOOLEAN
    /\ http_only \in BOOLEAN
    /\ queue = << >>
    /\ unfinished = 0
    /\ mainPc = "start"
    /\ nput = 0
    /\ interrupted = FALSE
    /\ wpc = [w \in Tasks |-> "not_created"]
    /\ word = [w \in Tasks |-> None]
    /\ ip = [w \in Tasks |-> None]
    /\ result = [w \in Tasks |-> None]
    /\ cancelRequested = [w \in Tasks |-> FALSE]
    /\ checked_count = 0
    /\ header_printed = FALSE
    /\ print_lock = FALSE
    /\ terminal = [lines |-> << >>, cur |-> None]
    /\ writes = [h \in Hosts |-> << >>]
    /\ completed = {}
    /\ errors = << >>
    /\ outfile = None
    /\ saved = "not_attempted"
    /\ stdout = "ok"

\* The engine constructed with a positive worker count.
InitIdle == InitConstructed(1..MaxWorkers)

\* self.found_subdomains = {}
InitEngine == InitIdle /\ found_subdomains = << >>

Init == InitEngine /\ net = AnyNetwork /\ recording = TRUE

InitEngineOnly == InitEngine /\ net = AnyNetwork /\ recording = FALSE

InitFixed == InitEngine /\ net \in FixedNetworks /\ recording = FALSE

InitTimeouts == InitEngine /\ net \in TimeoutNetworks /\ recording = FALSE

\* The engine constructed with any worker count.
InitAnyCount ==
    /\ InitConstructed(WorkerCounts)
    /\ found_subdomains = << >> /\ net = AnyNetwork /\ recording = FALSE

\* save_results called on its own, with any table of the type it declares:
\* Dict[str, Tuple[Optional[str], Optional[int], Optional[str]]].
InitSaveResults ==
    /\ InitIdle /\ workers = 1 /\ ~dns_only /\ ~http_only
    /\ net = AnyNetwork /\ recording = FALSE
    /\ found_subdomains \in DeclaredTables

\* ------------------------------------------------------------------ run()
\* task.done()
Done(w) == wpc[w] \in {"exited", "cancelled", "failed"}

\* The host a worker probes: that of the word it holds.
subdomain(w) == Host(word[w][1])

\* load_wordlist raises FileNotFoundError: run() prints it and returns.
RunNoFile ==
    /\ mainPc = "start"
    /\ mainPc' = "not_run"
    /\ errors' = Append(errors, "Wordlist not found")
    /\ UNCHANGED << config, outfile, saved, queue, unfinished, nput, interrupted, wpc, locals,
                    cancelRequested, shared, checked_count, completed >>

\* load_wordlist reads the file: with no usable line it raises ValueError and
\* run() prints it and returns; otherwise run() creates the queue, the session
\* and the worker tasks and enters the producer loop.
RunLoad(file) ==
    /\ mainPc = "start"
    /\ IF EmptyWordlist(NonBlank(file))
       THEN /\ mainPc' = "not_run"
            /\ errors' = Append(errors, "Wordlist is empty")
            /\ UNCHANGED << words, wpc >>
       ELSE /\ words' = NonBlank(file)
            /\ wpc' = [w \in Tasks |-> "get"]
            /\ mainPc' = "put_words"
            /\ UNCHANGED errors
    /\ UNCHANGED << workers_arg, workers, dns_only, http_only, net, recording, stdout, queue, unfinished,
                    nput, interrupted, locals, cancelRequested, shared, checked_count,
                    completed, outfile, saved >>

\* A producer that enqueues one sentinel fewer than there are workers.
SentinelCountOneShort == workers - 1

\* range(self.workers): the number of sentinels run() enqueues.
SentinelCount == workers

\* A producer that goes through the wordlist from its end.
ItemReversed(i) == IF i <= Len(words) THEN Some(words[Len(words) + 1 - i]) ELSE None

\* The i-th item run() enqueues: the words in order, then the sentinels.
Item(i) == IF i <= Len(words) THEN Some(words[i]) ELSE None

\* A queue that counts its capacity without the items it holds.
RoomIgnoringQueue == maxsize

\* The places free in the queue: put() returns at once while there is one.
Room == maxsize - Len(queue)

\* The producer loops of run(), from the await they resumed at to the next one
\* at which they suspend: put() on a full queue, or join().
Produce ==
    /\ mainPc \in {"put_words", "put_sentinels"}
    /\ Room > 0
    /\ LET left == Len(words) + SentinelCount - nput
           k == IF Room < left THEN Room ELSE left
       IN /\ queue' = queue \o [i \in 1..k |-> Item(nput + i)]
          /\ unfinished' = unfinished + k
          /\ nput' = nput + k
          /\ mainPc' = IF nput + k < Len(words) THEN "put_words"
                       ELSE IF k < left THEN "put_sentinels"
                       ELSE "join"
    /\ UNCHANGED << config, reports, interrupted, wpc, locals, cancelRequested, shared,
                    checked_count, completed >>

\* finally: for task in workers: if not task.done(): task.cancel()
CancelPending == [w \in Tasks |-> ~Done(w)]

\* await queue.join() returns when every item put has been task_done; the
\* finally block then runs up to its await.
Join ==
    /\ mainPc = "join"
    /\ unfinished = 0
    /\ cancelRequested' = CancelPending
    /\ mainPc' = "gather"
    /\ UNCHANGED << config, reports, queue, unfinished, nput, interrupted, wpc, locals, shared,
                    checked_count, completed >>

\* An interruption reaches run() at the await of its try block it is at: the
\* finally block runs up to its await.
Interrupt ==
    /\ mainPc \in {"put_words", "put_sentinels", "join"}
    /\ interrupted' = TRUE
    /\ cancelRequested' = CancelPending
    /\ mainPc' = "gather"
    /\ UNCHANGED << config, reports, queue, unfinished, nput, wpc, locals, shared,
                    checked_count, completed >>

\* A gather that is not awaited.
GatherNotAwaited == TRUE

\* await asyncio.gather(*workers, return_exceptions=True) returns when every
\* worker task is done.
GatherReady == \A w \in Tasks : Done(w)

\* After the gather of a run that was not interrupted, or whose interruption
\* was a KeyboardInterrupt raised in run() itself (caught at line 212): run()
\* blanks the cursor's row, prints the footer and returns.  On a broken
\* stdout the first of these prints raises, and the error leaves run().
GatherReturns ==
    /\ mainPc = "gather"
    /\ GatherReady
    /\ mainPc' = IF PrintRaises THEN "raised" ELSE "returned"
    /\ terminal' = IF PrintRaises THEN terminal
                   ELSE Record(terminal, print_footer(terminal, header_printed))
    /\ UNCHANGED << config, reports, queue, unfinished, nput, interrupted, wpc, locals,
                    cancelRequested, found_subdomains, header_printed, print_lock,
                    writes, checked_count, completed >>

\* After the gather of a run interrupted by the CancelledError with which
\* asyncio.run cancels the main task on SIGINT: no handler of run() catches
\* it, and it goes on to the caller.
GatherPropagates ==
    /\ mainPc = "gather"
    /\ GatherReady
    /\ interrupted
    /\ mainPc' = "propagated"
    /\ UNCHANGED << config, reports, queue, unfinished, nput, interrupted, wpc, locals,
                    cancelRequested, shared, checked_count, completed >>

\* ------------------------------------------------------------------ process_worker
\* A worker runs only when it is at an await and has not been cancelled.
At(w, pc) == wpc[w] = pc /\ ~cancelRequested[w]

\* (self.checked_count % self.status_update_interval) == 0 or self.checked_count == 1
ProgressDue(count) == count % status_update_interval = 0 \/ count = 1

\* A key kept on the engine instead of in the worker: the host of the word
\* dequeued last.
StoreKeyShared(w) == Host(words[checked_count])

\* The host under which a worker stores.
StoreKey(w) == subdomain(w)

\* The table, the terminal and their history as a step has left them so far.
Current ==
    [found |-> found_subdomains, terminal |-> terminal, header |-> header_printed,
     writes |-> writes, lock |-> print_lock]

\* A print section that returns with the lock still held.
LockKeptOnExit == TRUE

\* "async with self.print_lock:" around prints only: the block has no await,
\* and leaving it, by its end or by an exception, releases the lock.
LockOnExit == FALSE

\* self.found_subdomains[subdomain] = (...) followed by display_found(...).
\* On a broken stdout the first print of display_found raises: nothing is
\* shown and header_printed stays as it is.
StoreAndDisplay(S, w, proto, status, address, size, update) ==
    [found |-> Store(S.found, StoreKey(w), Entry(proto, status, address, size)),
     writes |-> Record(S.writes, [S.writes EXCEPT ![StoreKey(w)] = Append(@, w)]),
     terminal |-> IF PrintRaises THEN S.terminal
                  ELSE Record(S.terminal, display_found(S.terminal, S.header, subdomain(w),
                                                        proto, status, address, size, update)),
     header |-> IF PrintRaises THEN S.header ELSE TRUE,
     lock |-> LockOnExit]

\* A host stored although its DNS existence check failed.
SkippedButStored(w, S) == StoreAndDisplay(S, w, None, None, None, None, FALSE)

\* if dns_exists: ... with dns_exists false: the pipeline does nothing more.
Skipped(w, S) == S

\* A host whose HTTP probe found nothing, left out of the table.
UnreachableDropped(w, S) == S

\* An unreachable host stored with a status code and no protocol.
UnreachableWithStatus(w, S) == StoreAndDisplay(S, w, None, Some(200), ip[w], None, FALSE)

\* else: (check_http returned None in full mode) the host is stored as a DNS
\* match with the ip of the lookup, and displayed.
Unreachable(w, S) == StoreAndDisplay(S, w, None, None, ip[w], None, FALSE)

\* A size taken as missing whatever check_http returned.
SizeNeverKnown(size) == FALSE

\* if size is not None: after check_http, the entry is final.
SizeKnown(size) == size # None

\* The end of a worker's step: what it has written becomes the shared state.
\* Its print sections acquired print_lock, which a step finds free: acquire()
\* does not suspend on a free lock.
Commit(S) ==
    /\ found_subdomains' = S.found
    /\ writes' = S.writes
    /\ header_printed' = S.header
    /\ print_lock = FALSE
    /\ print_lock' = S.lock

\* The worker suspends at its next probe.
Await(w, S, pc, address, res) ==
    /\ Commit(S)
    /\ terminal' = S.terminal
    /\ wpc' = [wpc EXCEPT ![w] = pc]
    /\ ip' = [ip EXCEPT ![w] = address]
    /\ result' = [result EXCEPT ![w] = res]
    /\ UNCHANGED << word, queue, unfinished, checked_count, completed >>

\* An acknowledgement that is never made.
task_done_forgotten(n) == n

\* queue.task_done()
task_done(n) == n - 1

\* A worker that does not leave its loop on the sentinel.
StaysAfterSentinel == "get"

\* What a worker does with the sentinel.
AfterSentinel == "exited"

\* A word counted twice.
CountedTwice(item, count) == IF item = None THEN count ELSE count + 2

\* The counter raised before the sentinel is told from a word.
CountedBeforeSentinelTest(item, count) == count + 1

\* self.checked_count after an item has been dequeued: the sentinel leaves the
\* loop before the counter, a word raises it by one.
Counted(item, count) == IF item = None THEN count ELSE count + 1

\* A pipeline choice in which dns_only overrides http_only.
HttpOnlyUnlessDnsOnly == http_only /\ ~dns_only

\* "if self.http_only:", the test that picks the pipeline of a candidate; it
\* comes before any test of dns_only.
HttpOnlyPipeline == http_only

\* A default pipeline that goes on to the HTTP probe whatever dns_only says.
DnsOnlyIgnored == FALSE

\* "if self.dns_only:" of line 145, inside the default pipeline, after the IP
\* lookup: the candidate is stored as a DNS match and nothing more is probed.
DnsOnlyStops == dns_only

\* The print of print_progress_bar raises inside "async with self.print_lock"
\* (lines 113-119): the bar is due, stdout is a terminal and refuses the write.
BarRaises(count) == ProgressDue(count) /\ isatty /\ PrintRaises

\* The top of the worker's loop, with n items unfinished: queue.get() suspends
\* on an empty queue; a sentinel is acknowledged and ends the loop; a word is
\* counted, the progress bar is printed when due, and the worker suspends at
\* its first probe, check_http when http_only, else check_dns.  When the
\* print of the bar raises, the outer "except Exception" (lines 172-174)
\* acknowledges the word and breaks out of the loop.
Loop(w, S, n) ==
    /\ Commit(S)
    /\ ip' = [ip EXCEPT ![w] = None]
    /\ result' = [result EXCEPT ![w] = None]
    /\ IF queue = << >>
       THEN /\ wpc' = [wpc EXCEPT ![w] = "get"]
            /\ word' = [word EXCEPT ![w] = None]
            /\ terminal' = S.terminal
            /\ unfinished' = n
            /\ UNCHANGED << queue, checked_count >>
       ELSE IF Head(queue) = None
       THEN /\ queue' = Tail(queue)
            /\ unfinished' = task_done(n)
            /\ wpc' = [wpc EXCEPT ![w] = AfterSentinel]
            /\ word' = [word EXCEPT ![w] = None]
            /\ terminal' = S.terminal
            /\ checked_count' = Counted(Head(queue), checked_count)
       ELSE IF BarRaises(Counted(Head(queue), checked_count))
       THEN /\ queue' = Tail(queue)
            /\ checked_count' = Counted(Head(queue), checked_count)
            /\ unfinished' = task_done(n)
            /\ wpc' = [wpc EXCEPT ![w] = "failed"]
            /\ word' = [word EXCEPT ![w] = None]
            /\ terminal' = S.terminal
       ELSE /\ queue' = Tail(queue)
            /\ word' = [word EXCEPT ![w] = Head(queue)]
            /\ checked_count' = Counted(Head(queue), checked_count)
            /\ terminal' = IF ProgressDue(checked_count')
                           THEN Record(S.terminal, print_progress_bar(S.terminal, checked_count'))
                           ELSE S.terminal
            /\ wpc' = [wpc EXCEPT ![w] = IF HttpOnlyPipeline THEN "http" ELSE "dns"]
            /\ unfinished' = n

\* finally: queue.task_done(), and back to the top of the loop.
Finish(w, S) ==
    /\ completed' = Record(completed, completed \cup {subdomain(w)})
    /\ Loop(w, S, task_done(unfinished))

\* After a provisional store and its display_found the worker suspends at
\* get_content_size; when the display raised, the inner "except Exception:
\* pass" takes it to the finally block instead.
AwaitAfterDisplay(w, S, pc, address, res) ==
    IF PrintRaises THEN Finish(w, S) ELSE Await(w, S, pc, address, res)

\* word = await queue.get() resumes: the queue has an item.  The workers
\* waiting in get() hold no word and no local, so which of them takes the
\* item changes nothing but its number: the lowest-numbered one takes it.
Get(w) ==
    /\ At(w, "get")
    /\ \A v \in 1..(w - 1) : ~At(v, "get")
    /\ queue # << >>
    /\ Loop(w, Current, unfinished)
    /\ UNCHANGED << config, reports, mainPc, nput, interrupted, cancelRequested, completed >>

\* dns_exists = await check_dns(subdomain, self.timeout)
DnsReturns(w) ==
    /\ At(w, "dns")
    /\ \E dns_exists \in { check_dns(outcome) : outcome \in net[subdomain(w)].dns } :
          IF dns_exists THEN Await(w, Current, "ip", None, None)
          ELSE Finish(w, Skipped(w, Current))
    /\ UNCHANGED << config, reports, mainPc, nput, interrupted, cancelRequested >>

\* ip = await get_ip_address(subdomain, self.timeout), in both pipelines
IpReturns(w) ==
    /\ At(w, "ip")
    /\ \E address \in { get_ip_address(outcome) : outcome \in net[subdomain(w)].ip } :
          IF HttpOnlyPipeline
          THEN LET r == result[w][1] IN
               IF SizeKnown(r.size)
               THEN Finish(w, StoreAndDisplay(Current, w, Some(r.proto), Some(r.status),
                                              address, r.size, FALSE))
               ELSE AwaitAfterDisplay(w, StoreAndDisplay(Current, w, Some(r.proto),
                                                         Some(r.status), address, None, FALSE),
                                      "size", address, result[w])
          ELSE IF DnsOnlyStops
          THEN Finish(w, StoreAndDisplay(Current, w, None, None, address, None, FALSE))
          ELSE Await(w, Current, "http", address, None)
    /\ UNCHANGED << config, reports, mainPc, nput, interrupted, cancelRequested >>

\* result = await check_http(session, subdomain, self.timeout), in both pipelines
HttpReturns(w) ==
    /\ At(w, "http")
    /\ \E httpsAnswer \in net[subdomain(w)].https, httpAnswer \in net[subdomain(w)].http :
          LET res == check_http(httpsAnswer, httpAnswer) IN
          IF HttpOnlyPipeline
          THEN IF res # None THEN Await(w, Current, "ip", None, res) ELSE Finish(w, Current)
          ELSE IF res = None
          THEN Finish(w, Unreachable(w, Current))
          ELSE IF SizeKnown(res[1].size)
          THEN Finish(w, StoreAndDisplay(Current, w, Some(res[1].proto), Some(res[1].status),
                                         ip[w], res[1].size, FALSE))
          ELSE AwaitAfterDisplay(w, StoreAndDisplay(Current, w, Some(res[1].proto),
                                                    Some(res[1].status), ip[w], None, FALSE),
                                 "size", ip[w], res)
    /\ UNCHANGED << config, reports, mainPc, nput, interrupted, cancelRequested >>

\* size = await get_content_size(session, subdomain, proto, self.timeout)
SizeReturns(w) ==
    /\ At(w, "size")
    /\ \E answer \in GetAnswers(subdomain(w), result[w][1].proto),
          body \in net[subdomain(w)].body :
          LET size == get_content_size(answer, body)
              r == result[w][1] IN
          IF size # None
          THEN Finish(w, StoreAndDisplay(Current, w, Some(r.proto), Some(r.status), ip[w],
                                         size, TRUE))
          ELSE Finish(w, Current)
    /\ UNCHANGED << config, reports, mainPc, nput, interrupted, cancelRequested >>

\* A cancelled worker that acknowledges wherever the cancellation found it.
CancelledAlwaysAcknowledges(pc) == TRUE

\* The await at which CancelledError is raised is inside the inner try, whose
\* finally calls task_done, unless it is queue.get().
CancelledAcknowledges(pc) == pc # "get"

\* The worker's await raises CancelledError: inside the pipeline the inner
\* finally calls task_done; the outer handler breaks out of the loop.  The
\* event loop resumes the cancelled tasks in the order run() cancelled them.
Cancelled(w) ==
    /\ cancelRequested[w]
    /\ ~Done(w)
    /\ \A v \in 1..(w - 1) : Done(v)
    /\ wpc' = [wpc EXCEPT ![w] = "cancelled"]
    /\ unfinished' = IF CancelledAcknowledges(wpc[w]) THEN task_done(unfinished) ELSE unfinished
    /\ word' = [word EXCEPT ![w] = None]
    /\ ip' = [ip EXCEPT ![w] = None]
    /\ result' = [result EXCEPT ![w] = None]
    /\ UNCHANGED << config, reports, queue, mainPc, nput, interrupted, cancelRequested,
                    shared, checked_count, completed >>

\* stdout is a pipe and its reader goes away while the pool is running: from
\* then on every print raises.
StdoutBreaks ==
    /\ stdout = "ok"
    /\ mainPc \in {"put_words", "put_sentinels", "join", "gather"}
    /\ stdout' = "broken"
    /\ UNCHANGED << words, workers_arg, workers, dns_only, http_only, net, recording, queue, unfinished,
                    mainPc, nput, interrupted, wpc, locals, cancelRequested, shared,
                    checked_count, completed, reports >>

\* stdout is a terminal and starts to refuse writes while the pool is
\* running: from then on every print raises, the one of the progress bar too.
TerminalRefuses ==
    /\ stdout = "ok"
    /\ mainPc \in {"put_words", "put_sentinels", "join", "gather"}
    /\ stdout' = "refusing"
    /\ UNCHANGED << words, workers_arg, workers, dns_only, http_only, net, recording, queue, unfinished,
                    mainPc, nput, interrupted, wpc, locals, cancelRequested, shared,
                    checked_count, completed, reports >>

\* ------------------------------------------------------------------ main()
\* The call save_results(args.output, fuzzer.found_subdomains) with the
\* handler of save_results: what is raised leaves it as an IOError.
SaveResults(writable) ==
    /\ saved = "not_attempted"
    /\ LET r == save_results(found_subdomains, writable)
       IN /\ outfile' = IF r.file = None THEN outfile ELSE r.file
          /\ saved' = IF r.raised = None THEN "saved" ELSE SaveError(r.raised[1])
    /\ UNCHANGED << config, errors, queue, unfinished, mainPc, nput, interrupted, wpc, locals,
                    cancelRequested, shared, checked_count, completed >>

\* "if args.output and fuzzer.found_subdomains:" after run() has returned: the
\* user gave an output file and the table is not empty, so main() calls
\* save_results, and reports the IOError it raises.
Save(writable) ==
    /\ mainPc = "returned"
    /\ found_subdomains # << >>
    /\ SaveResults(writable)

\* ------------------------------------------------------------------ specification
Program ==
    \/ RunNoFile
    \/ \E file \in Files : RunLoad(file)
    \/ Produce
    \/ Join
    \/ GatherReturns
    \/ GatherPropagates
    \/ \E w \in Tasks : Get(w)
    \/ \E w \in Tasks : DnsReturns(w)
    \/ \E w \in Tasks : IpReturns(w)
    \/ \E w \in Tasks : HttpReturns(w)
    \/ \E w \in Tasks : SizeReturns(w)
    \/ \E w \in Tasks : Cancelled(w)

Next == Program \/ Interrupt

Spec == Init /\ [][Next]_vars

\* The engine alone, its output and history not kept.
EngineSpec == InitEngineOnly /\ [][Next]_vars

\* The event loop runs every task that is ready: a step of the program that
\* stays possible is taken.  Nothing obliges the user to interrupt.
FairSpec == EngineSpec /\ WF_vars(Program)

\* The same engine on a deterministic network.
SpecFixed == InitFixed /\ [][Next]_vars

\* The same engine on a network whose second host times out where the first fails.
SpecTimeouts == InitTimeouts /\ [][Next]_vars

\* The engine under main(), which saves the table when the user asked for an
\* output file.
NextMain == Next \/ \E writable \in BOOLEAN : Save(writable)

MainSpec == InitEngineOnly /\ [][NextMain]_vars

\* A run the user lets finish: no interruption, so no task is cancelled.
\* Output and history are kept.
NextUninterrupted ==
    \/ RunNoFile
    \/ \E file \in Files : RunLoad(file)
    \/ Produce
    \/ Join
    \/ GatherReturns
    \/ \E w \in Tasks : Get(w)
    \/ \E w \in Tasks : DnsReturns(w)
    \/ \E w \in Tasks : IpReturns(w)
    \/ \E w \in Tasks : HttpReturns(w)
    \/ \E w \in Tasks : SizeReturns(w)

\* The three modes: full, dns_only, http_only (both flags at once run the
\* http_only pipeline again).
InitReport == Init /\ ~(dns_only /\ http_only)

ReportSpec == InitReport /\ [][NextUninterrupted]_vars

\* save_results on its own.
SaveResultsSpec == InitSaveResults /\ [][\E writable \in BOOLEAN : SaveResults(writable)]_vars

\* The modes that start with the DNS existence check, output and history kept.
InitDefaultModes == Init /\ ~http_only

DefaultModesSpec == InitDefaultModes /\ [][Next]_vars

\* The engine writing to a stdout that may break.
NextFault == Next \/ StdoutBreaks

FaultSpec == Init /\ [][NextFault]_vars

\* The same, output and history not kept.
FaultEngineSpec == InitEngineOnly /\ [][NextFault]_vars

\* The engine writing to a terminal that may start to refuse writes, under
\* the fair scheduling of the event loop.
NextRefusing == Next \/ TerminalRefuses

RefusingSpec == InitEngineOnly /\ [][NextRefusing]_vars /\ WF_vars(Program)

\* The engine constructed with any worker count, under the fair scheduling of
\* the event loop.
AnyCountSpec == InitAnyCount /\ [][Next]_vars /\ WF_vars(Program)

\* ------------------------------------------------------------------ claims
Exited == mainPc \in {"returned", "propagated"}
Uninterrupted == ~interrupted
Stored == DOMAIN found_subdomains
Distinct(ws) == \A i, j \in DOMAIN ws : ws[i] = ws[j] => i = j
AllExitedOnSentinel == \A w \in Tasks : wpc[w] = "exited" /\ ~cancelRequested[w]
Terminated ==
    \/ mainPc = "not_run"
    \/ mainPc = "propagated" /\ GatherReady
    \/ mainPc = "returned" /\ GatherReady /\ (Uninterrupted => unfinished = 0 /\ queue = << >>)

\* C1: when a run that was not interrupted returns, checked_count equals the
\* number of candidates of the wordlist, whatever the worker count and
\* whatever the probes answered.
C1_ProcessedAll ==
    (mainPc = "returned" /\ Uninterrupted) => checked_count = Len(words)

C1_Witness ==
    /\ mainPc = "returned" /\ Uninterrupted
    /\ workers = 2 /\ words = << "a", "b" >> /\ checked_count = 2
    /\ Stored = {Host("a")}

\* C2: every stored entry has its protocol set or its ip set.
C2_ProtocolOrIp ==
    \A h \in Stored : found_subdomains[h].proto # None \/ found_subdomains[h].ip # None

\* C3: the sentinels run() has enqueued are as many as are still queued plus
\* one per worker that left its loop on one (no worker takes two), run()
\* reaches join() with the words and exactly self.workers sentinels enqueued,
\* and when the drain of a run that was not interrupted has been observed every
\* worker has left its loop on a sentinel: none is left waiting on the queue.
C3_OneSentinelEach ==
    LET exitedOnSentinel == { w \in Tasks : wpc[w] = "exited" }
        queued == { i \in DOMAIN queue : queue[i] = None }
        enqueued == IF nput > Len(words) THEN nput - Len(words) ELSE 0
    IN /\ Cardinality(exitedOnSentinel) + Cardinality(queued) = enqueued
       /\ mainPc = "join" => nput = Len(words) + workers
       /\ (mainPc \in {"gather", "returned"} /\ Uninterrupted) =>
             (AllExitedOnSentinel /\ queue = << >> /\ nput = Len(words) + workers)

C3_Witness ==
    /\ mainPc = "gather" /\ Uninterrupted
    /\ workers = 2 /\ Len(words) = 2
    /\ AllExitedOnSentinel

\* C4: under fair scheduling, with every probe returning, the run comes to an
\* end: run() has returned (or handed an interruption on) with every worker
\* task ended and, when it was not interrupted, with everything enqueued and
\* the queue drained.
C4_Terminates == <>Terminated

C4_Witness ==
    /\ mainPc = "returned" /\ Uninterrupted
    /\ workers = 1 /\ Len(words) = 2
    /\ unfinished = 0 /\ GatherReady

\* The one answer a probe of a deterministic network gets.
The(answers) == CHOOSE x \in answers : TRUE

\* What the pipeline of process_worker stores for a host when it runs alone on
\* a deterministic network: None, or the entry.
Outcome(h) ==
    LET res == check_http(The(net[h].https), The(net[h].http))
        address == get_ip_address(The(net[h].ip))
        sized(r) == IF r.size # None THEN r.size
                    ELSE get_content_size(The(GetAnswers(h, r.proto)), The(net[h].body))
        reached(r) == Entry(Some(r.proto), Some(r.status), address, sized(r))
    IN IF http_only
       THEN IF res = None THEN None ELSE Some(reached(res[1]))
       ELSE IF ~check_dns(The(net[h].dns)) THEN None
       ELSE IF dns_only \/ res = None THEN Some(Entry(None, None, address, None))
       ELSE Some(reached(res[1]))

Expected ==
    [ h \in { x \in { Host(words[i]) : i \in DOMAIN words } : Outcome(x) # None } |->
        Outcome(h)[1] ]

\* C5: on a deterministic network the table a run that was not interrupted
\* ends with is the one its candidates give one by one: it depends on the
\* network, the wordlist and the mode only, not on the worker count nor on the
\* order in which the workers ran.
C5_SameTable ==
    (mainPc = "returned" /\ Uninterrupted) => found_subdomains = Expected

C5_Witness ==
    /\ mainPc = "returned" /\ Uninterrupted
    /\ workers = 2 /\ words = << "a", "b" >>
    /\ Stored = Hosts
    /\ found_subdomains[Host("a")].size = Some(37)
    /\ found_subdomains[Host("b")].proto = None

\* C6: no key of the table is written by two workers.
C6_SingleWriter ==
    \A h \in Hosts : \A i, j \in DOMAIN writes[h] : writes[h][i] = writes[h][j]

\* C7: a key is written at most twice, and a second write is the size
\* enrichment of an entry whose protocol is set.
C7_WrittenTwiceAtMost ==
    \A h \in Hosts :
       /\ Len(writes[h]) <= 2
       /\ Len(writes[h]) = 2 =>
             (found_subdomains[h].proto # None /\ found_subdomains[h].size # None)

\* C8: with no label repeated, the report holds exactly one found row for each
\* stored host, showing what is stored.
C8_OneRowPerHost ==
    Distinct(words) =>
       \A h \in Stored :
          LET rows == { i \in DOMAIN terminal.lines :
                          terminal.lines[i].kind = "found" /\ terminal.lines[i].host = h }
          IN /\ Cardinality(rows) = 1
             /\ \A i \in rows : terminal.lines[i].entry.size = found_subdomains[h].size

\* C9: once a run has been interrupted, the table holds entries only for hosts
\* whose candidate had completed its pipeline.
C9_OnlyCompleted == interrupted => Stored \subseteq completed

\* C10: whichever way run() leaves its try block, the worker tasks that are not
\* done are cancelled, run() exits only when every worker task is done, and
\* nothing but an interruption of run() itself leaves run() as an exception.
C10_WorkersStopped ==
    /\ mainPc = "gather" => \A w \in Tasks : Done(w) \/ cancelRequested[w]
    /\ Exited => \A w \in Tasks : Done(w)
    /\ mainPc = "propagated" => interrupted

C10_Witness ==
    /\ mainPc = "propagated"
    /\ workers = 2
    /\ \A w \in Tasks : wpc[w] = "cancelled"
    /\ checked_count = 2 /\ unfinished = 2

\* C11: a run that was interrupted does not end as a normal run: once it has
\* left run(), the interruption has gone on to the caller.
C11_InterruptionPropagates == (interrupted /\ Exited) => mainPc = "propagated"

\* The words dequeued so far: those enqueued less those still queued.
WordsDequeued ==
    (IF nput < Len(words) THEN nput ELSE Len(words))
       - Cardinality({ i \in DOMAIN queue : queue[i] # None })

\* A step that dequeues an item: the queue loses its head.
Dequeues == queue # << >> /\ queue' = Tail(queue)

\* C12: checked_count never exceeds total_words and equals the number of
\* words dequeued so far; it never decreases; the step that dequeues a word
\* raises it by exactly one and no other step, that of a sentinel included,
\* changes it.
C12_CountedOnce ==
    /\ [](checked_count <= total_words /\ checked_count = WordsDequeued)
    /\ [][ checked_count' = IF Dequeues /\ Head(queue) # None
                            THEN checked_count + 1 ELSE checked_count ]_vars

C12_Witness ==
    /\ workers = 2 /\ words = << "a", "a" >>
    /\ checked_count = 2
    /\ wpc[1] = "exited" /\ wpc[2] # "exited"

\* The step is one in which worker w wrote the key of host h.
Writes(w, h) == writes'[h] = Append(writes[h], w)

\* C13: when display_found, a step of a candidate's pipeline, raises, the
\* table holds no entry for that candidate's host once the step is over.
C13_RaisedLeavesNoEntry ==
    [][ \A w \in Tasks : \A h \in Hosts :
           (PrintRaises /\ Writes(w, h)) => h \notin DOMAIN found_subdomains' ]_vars

\* The step leaves every worker but w where it was.
OthersStill(w) ==
    \A v \in Tasks \ {w} :
       wpc'[v] = wpc[v] /\ word'[v] = word[v] /\ ip'[v] = ip[v] /\ result'[v] = result[v]

\* The step in which check_dns returns false to a worker: the worker leaves
\* the check without going on to the IP lookup, and its item is acknowledged.
DnsFalseStep ==
    \E w \in Tasks :
       /\ At(w, "dns")
       /\ wpc'[w] # "ip"
       /\ unfinished' < unfinished
       /\ OthersStill(w)

\* C14: when http_only is not set, the step in which the DNS existence check
\* of a candidate returns false leaves the table as it was (no key written)
\* and adds no row, header or found line, to the report.
C14_SkipLeavesNoTrace ==
    [][ (~http_only /\ DnsFalseStep) =>
           /\ found_subdomains' = found_subdomains
           /\ writes' = writes
           /\ terminal'.lines = terminal.lines
           /\ header_printed' = header_printed ]_vars

C14_Witness ==
    /\ ~http_only /\ workers = 1 /\ words = << "a", "b" >>
    /\ completed = {Host("a")} /\ Stored = {} /\ terminal.lines = << >>
    /\ wpc[1] = "dns" /\ checked_count = 2

\* The hosts of the candidates of the wordlist.
Candidates == { Host(words[i]) : i \in DOMAIN words }

\* On a deterministic network: what check_dns and get_ip_address return for h.
DnsOf(h) == check_dns(The(net[h].dns))
IpOf(h) == get_ip_address(The(net[h].ip))

\* On a deterministic network: the DNS existence check of h succeeds and its
\* HTTP probe returns no result.
DnsMatchOnly(h) ==
    DnsOf(h) /\ check_http(The(net[h].https), The(net[h].http)) = None

\* C15: in full mode, on a deterministic network, when a run that was not
\* interrupted has returned, every candidate host whose DNS check succeeds
\* and whose HTTP probe returns nothing has the entry (none, none, ip, none)
\* with the ip of its lookup, no host whose DNS check fails has an entry, and
\* when the DNS-resolving candidates are all of that kind and have an
\* address, the table is exactly their entries, protocol none and ip set.
C15_UnreachableStored ==
    (mainPc = "returned" /\ Uninterrupted /\ ~dns_only /\ ~http_only) =>
       /\ \A h \in Candidates :
             DnsMatchOnly(h) =>
                /\ h \in Stored
                /\ found_subdomains[h] = Entry(None, None, IpOf(h), None)
       /\ \A h \in Stored : DnsOf(h)
       /\ (\A h \in Candidates :
              DnsOf(h) => (DnsMatchOnly(h) /\ IpOf(h) # None)) =>
             /\ Stored = { h \in Candidates : DnsOf(h) }
             /\ \A h \in Stored :
                   found_subdomains[h].proto = None /\ found_subdomains[h].ip # None

C15_Witness ==
    /\ mainPc = "returned" /\ Uninterrupted /\ ~dns_only /\ ~http_only
    /\ workers = 2 /\ words = << "a", "b" >>
    /\ Stored = Hosts
    /\ \A h \in Hosts : found_subdomains[h] = Entry(None, None, Some(Address), None)

\* The addresses get_ip_address can return for host h.
Addresses(h) == { get_ip_address(outcome) : outcome \in net[h].ip }

\* The results check_http can return for host h.
HttpResults(h) ==
    { check_http(httpsAnswer, httpAnswer) :
         httpsAnswer \in net[h].https, httpAnswer \in net[h].http }

\* The entry of h after the step is made of a sized result of check_http.
SizedEntry(h, address) ==
    /\ h \in DOMAIN found_subdomains'
    /\ found_subdomains'[h].size # None
    /\ found_subdomains'[h].ip = address
    /\ \E res \in HttpResults(h) \ {None} :
          /\ res[1].size = found_subdomains'[h].size
          /\ Some(res[1].proto) = found_subdomains'[h].proto
          /\ Some(res[1].status) = found_subdomains'[h].status

\* C16: get_content_size is awaited only by a worker whose check_http result
\* has no size; and the step that stores a result whose size is set (after
\* the IP lookup when http_only, on the return of check_http in full mode)
\* is the pipeline's first store, writes the result's protocol, status and
\* size, and ends the pipeline: the worker does not go on to get_content_size.
C16_SizedStoredOnce ==
    /\ [](\A w \in Tasks :
             wpc[w] = "size" => (result[w] # None /\ result[w][1].size = None))
    /\ [][ \A w \in Tasks :
              /\ (http_only /\ At(w, "ip") /\ wpc'[w] # "ip" /\ result[w][1].size # None) =>
                    /\ wpc'[w] # "size"
                    /\ \E address \in Addresses(subdomain(w)) : SizedEntry(subdomain(w), address)
                    /\ found_subdomains'[subdomain(w)].size = result[w][1].size
                    /\ found_subdomains'[subdomain(w)].proto = Some(result[w][1].proto)
                    /\ found_subdomains'[subdomain(w)].status = Some(result[w][1].status)
              /\ (~http_only /\ At(w, "http") /\ wpc'[w] \notin {"http", "size"}
                     /\ found_subdomains'[subdomain(w)].proto # None) =>
                    SizedEntry(subdomain(w), ip[w]) ]_vars

C16_Witness ==
    /\ mainPc = "returned" /\ Uninterrupted /\ ~http_only /\ ~dns_only
    /\ workers = 1 /\ words = << "a" >>
    /\ Stored = {Host("a")}
    /\ found_subdomains[Host("a")] = Entry(Some("https"), Some(200), Some(Address), Some(512))

\* The sizes a fetch of host h over protocol proto can return.
FetchSizes(h, proto) ==
    { get_content_size(answer, body) :
         answer \in (IF proto = "https" THEN net[h].https ELSE net[h].http),
         body \in net[h].body }

\* C17: the step that takes a worker to get_content_size has stored its host
\* with the protocol and status of a check_http result without size, the
\* looked-up ip and size none; the step in which the fetch returns either
\* writes nothing (the fetch returned none) or rewrites the host's entry as
\* the same protocol, status and ip with a size the fetch can return over
\* that same protocol.
C17_ProvisionalThenEnriched ==
    [][ \A w \in Tasks :
           /\ (wpc[w] # "size" /\ wpc'[w] = "size") =>
                 /\ result'[w] \in HttpResults(subdomain(w)) \ {None}
                 /\ result'[w][1].size = None
                 /\ ip'[w] \in Addresses(subdomain(w))
                 /\ subdomain(w) \in DOMAIN found_subdomains'
                 /\ found_subdomains'[subdomain(w)] =
                       Entry(Some(result'[w][1].proto), Some(result'[w][1].status), ip'[w], None)
           /\ (At(w, "size") /\ wpc'[w] # "size") =>
                 \/ found_subdomains' = found_subdomains
                 \/ \E s \in FetchSizes(subdomain(w), result[w][1].proto) \ {None} :
                       found_subdomains' =
                          Store(found_subdomains, subdomain(w),
                                Entry(Some(result[w][1].proto), Some(result[w][1].status),
                                      ip[w], s)) ]_vars

C17_Witness ==
    /\ mainPc = "returned" /\ Uninterrupted /\ http_only
    /\ workers = 1 /\ words = << "a" >>
    /\ Stored = {Host("a")}
    /\ found_subdomains[Host("a")] = Entry(Some("http"), Some(404), Some(Address), Some(37))

\* What check_http returns for host h on a deterministic network.
ProbeOf(h) == check_http(The(net[h].https), The(net[h].http))

\* The hosts whose check_http has returned: those a worker holds the result
\* of, and those stored in a mode that stores after the probe.
Probed ==
    { subdomain(w) : w \in { v \in Tasks : result[v] # None } }
       \cup (IF dns_only /\ ~http_only THEN {} ELSE Stored)

\* The probe of h went as stated, http being tried only after an https error
\* of one of the kinds in fallbackErrors.
ProbeRule(h, fallbackErrors) ==
    LET a == The(net[h].https)
        b == The(net[h].http)
        tried == protocols_tried(a)
    IN /\ tried[1] = "https"
       /\ Len(tried) = 2 => (a.raised /\ a.error \in fallbackErrors)
       /\ ~a.raised =>
             /\ tried = << "https" >>
             /\ ProbeOf(h) = Some([proto |-> "https", status |-> a.status, size |-> a.size])
       /\ (a.raised /\ ~b.raised) =>
             ProbeOf(h) = Some([proto |-> "http", status |-> b.status, size |-> b.size])
       /\ ProbeOf(h) = None => (a.raised /\ b.raised)

\* What the engine holds is what the probe returned.
ProbeKept ==
    /\ \A w \in Tasks : result[w] # None => result[w] = ProbeOf(subdomain(w))
    /\ \A h \in Probed \cap Stored :
          /\ found_subdomains[h].proto =
                (IF ProbeOf(h) = None THEN None ELSE Some(ProbeOf(h)[1].proto))
          /\ found_subdomains[h].status =
                (IF ProbeOf(h) = None THEN None ELSE Some(ProbeOf(h)[1].status))

\* C18 as stated: https is tried first and http only after https raised a
\* connection-level or timeout error; an https response that completes is
\* returned as https whatever its status; none is returned only if both raised.
C18_FallbackOnConnectionError ==
    /\ \A h \in Probed : ProbeRule(h, {"connection", "timeout"})
    /\ ProbeKept

\* C18 amended: the same, http being tried after https raised any exception.
C18_FallbackOnAnyError ==
    /\ \A h \in Probed : ProbeRule(h, {"connection", "timeout", "other"})
    /\ ProbeKept

C18_Witness ==
    \E w \in Tasks :
       /\ wpc[w] = "size"
       /\ result[w][1].proto = "http"
       /\ The(net[subdomain(w)].https) = RaisedOther
       /\ \E h \in Stored : found_subdomains[h].proto = Some("https")
                               /\ found_subdomains[h].status = Some(503)

\* Each probe returns for a timeout what it returns for a failure: False for
\* check_dns, None for the others (for check_http, whichever attempt it is).
TimeoutAsFailure ==
    /\ check_dns("timeout") = check_dns("gaierror") /\ ~check_dns("timeout")
    /\ get_ip_address("timeout") = get_ip_address("gaierror")
    /\ get_ip_address("timeout") = None
    /\ \A x \in {Raised, TimedOut, Response(200, Some(512)), Response(404, None)} :
          /\ check_http(TimedOut, x) = check_http(Raised, x)
          /\ check_http(x, TimedOut) = check_http(x, Raised)
          /\ \A body \in BodyAnswers : get_content_size(x, "timeout") = get_content_size(x, "error")
    /\ check_http(TimedOut, TimedOut) = None
    /\ \A body \in BodyAnswers :
          /\ get_content_size(TimedOut, body) = get_content_size(Raised, body)
          /\ get_content_size(TimedOut, body) = None
    /\ get_content_size(Response(404, None), "timeout") = None

\* C19: each probe returns for a timeout what it returns for a failure; and
\* when a run that was not interrupted has returned, having processed a host
\* whose probes fail and a host whose probes time out instead, every candidate
\* has been counted and the two hosts are in the same table state: both
\* absent, or both stored with the same entry.
C19_TimeoutAsFailure ==
    /\ TimeoutAsFailure
    /\ (mainPc = "returned" /\ Uninterrupted /\ Candidates = Hosts) =>
          /\ checked_count = Len(words)
          /\ Host("a") \in Stored <=> Host("b") \in Stored
          /\ Host("a") \in Stored => found_subdomains[Host("a")] = found_subdomains[Host("b")]

C19_Witness ==
    /\ mainPc = "returned" /\ Uninterrupted /\ Candidates = Hosts /\ workers = 2
    /\ net[Host("a")].ip = {"gaierror"} /\ net[Host("b")].ip = {"timeout"}
    /\ net[Host("a")].https = {Raised} /\ net[Host("b")].https = {TimedOut}
    /\ net[Host("b")].body = {"timeout"}
    /\ Stored = Hosts
    /\ found_subdomains[Host("b")] = Entry(Some("http"), Some(404), None, None)

ProducerBlocked == mainPc \in {"put_words", "put_sentinels"} /\ Len(queue) = maxsize

\* C21: the queue never holds more than 2 x self.workers items; every step
\* that enqueues starts with the queue below that capacity, and while the
\* producer is suspended on a full queue nothing is enqueued until the step
\* of a worker has taken an item out.
C21_BoundedQueue ==
    /\ [](Len(queue) <= 2 * workers)
    /\ [][ /\ nput' > nput => (Len(queue) < 2 * workers /\ Len(queue') <= 2 * workers)
           /\ ProducerBlocked => (nput' = nput /\ Len(queue') <= Len(queue)) ]_vars

C21_Witness ==
    /\ ProducerBlocked
    /\ workers = 1 /\ Len(words) = 2 /\ nput = 2
    /\ queue = << Some("a"), Some("b") >>

\* The worker tasks run() has created.
Spawned == { w \in DOMAIN wpc : wpc[w] # "not_created" }

\* The worker tasks suspended in a probe.
AtProbe == { w \in DOMAIN wpc : wpc[w] \in {"dns", "ip", "http", "size"} }

\* The sentinels dequeued so far: those enqueued less those still queued.
SentinelsDequeued ==
    (IF nput > Len(words) THEN nput - Len(words) ELSE 0)
       - Cardinality({ i \in DOMAIN queue : queue[i] = None })

\* The candidates dequeued whose pipeline has not finished: the words dequeued
\* less the acknowledgements the queue has counted for words.
InFlight == WordsDequeued - ((nput - unfinished) - SentinelsDequeued)

\* C22: once run() has started its pool there are exactly self.workers worker
\* tasks (none before, none when the run did not start); the candidates
\* dequeued and not yet finished are never more than self.workers, and they
\* are as many as the tasks suspended in a probe.
C22_AtMostWorkersInFlight ==
    /\ Cardinality(Spawned) = (IF mainPc \in {"start", "not_run"} THEN 0 ELSE workers)
    /\ InFlight <= workers
    /\ InFlight = Cardinality(AtProbe)

C22_Witness ==
    /\ workers = 1 /\ words = << "a", "b" >>
    /\ wpc[1] = "http" /\ InFlight = 1
    /\ queue # << >> /\ Head(queue) = Some("b")

\* C23: the loader finds a file empty exactly when every line of it is blank;
\* a run whose wordlist is missing or empty has reported exactly one error,
\* has created no worker task, has no probe in flight, has enqueued and
\* counted nothing and has an empty table, and takes no further step; a run
\* that has started its pool has at least one word, none of them blank, and
\* has reported no error.
C23_InputErrorStopsRun ==
    /\ \A file \in Files :
          EmptyWordlist(NonBlank(file)) <=> (\A i \in DOMAIN file : file[i] = Blank)
    /\ [](mainPc = "not_run" =>
             /\ errors \in { << "Wordlist not found" >>, << "Wordlist is empty" >> }
             /\ Spawned = {} /\ AtProbe = {}
             /\ nput = 0 /\ queue = << >> /\ checked_count = 0
             /\ found_subdomains = << >>)
    /\ [](mainPc \notin {"start", "not_run"} =>
             /\ words # << >> /\ \A i \in DOMAIN words : words[i] \in Labels
             /\ errors = << >>)
    /\ [][mainPc # "not_run"]_vars

C23_Witness ==
    /\ mainPc = "not_run" /\ errors = << "Wordlist is empty" >>
    /\ workers = 2 /\ Spawned = {} /\ found_subdomains = << >>

\* The hosts of the lines of the output file, in the order of the lines.
SavedHosts == [i \in DOMAIN outfile[1] |-> outfile[1][i][1]]

\* C24: once the output file has been opened for the table of a run, it holds
\* exactly one line per stored host, and the lines are in the order of the
\* host names.
C24_OneLinePerHostSorted ==
    (mainPc = "returned" /\ outfile # None) =>
       /\ Len(SavedHosts) = Cardinality(Stored)
       /\ { SavedHosts[i] : i \in DOMAIN SavedHosts } = Stored
       /\ \A i, j \in DOMAIN SavedHosts : i < j => Precedes(SavedHosts[i], SavedHosts[j])

\* The line the format describes: the host, then the protocol and the status
\* or DNS, then the ip when it is set.
ExpectedLine(host, entry) ==
    (IF entry.proto # None THEN << host, entry.proto[1], entry.status[1] >>
     ELSE << host, "DNS" >>)
       \o (IF entry.ip # None THEN << entry.ip[1] >> ELSE << >>)

\* C25: every line of the output file is "host [protocol] [status]" when the
\* entry of its host has a protocol and "host [DNS]" when it has none, followed
\* in both cases by "[ip]" exactly when the entry has an ip.
C25_LineFormat ==
    outfile # None =>
       \A i \in DOMAIN outfile[1] :
          outfile[1][i] = ExpectedLine(SavedHosts[i], found_subdomains[SavedHosts[i]])

\* The step is main()'s save step, and it failed.
SaveFails == saved = "not_attempted" /\ saved' \notin {"not_attempted", "saved"}

\* C26: a save step that fails ends in an IOError, the one error main()
\* handles, and changes neither the table nor anything else the run left
\* behind: the outcome of run(), its counter and its reported errors.
C26_SaveFailureLeavesTable ==
    [][ SaveFails =>
          /\ saved' = "IOError"
          /\ found_subdomains' = found_subdomains
          /\ mainPc' = mainPc /\ mainPc = "returned"
          /\ checked_count' = checked_count /\ errors' = errors ]_vars

C26_Witness ==
    /\ saved = "IOError" /\ outfile = None
    /\ mainPc = "returned" /\ Uninterrupted
    /\ Stored = Hosts
    /\ found_subdomains[Host("b")] = Entry(None, None, Some(Address), None)

\* The step is the one in which the cancellation reaches worker w.
CancelStep(w) == wpc[w] # "cancelled" /\ wpc'[w] = "cancelled"

\* C27: the queue's count of unfinished items is never negative and is always
\* the items still queued plus the candidates dequeued whose pipeline has not
\* finished, so every dequeued item has been acknowledged once when its
\* processing ended and nothing else has been; the count is zero only when
\* every item enqueued so far has been consumed.  The step in which a
\* cancellation reaches a worker acknowledges one item when the worker was in
\* a pipeline and none when it was waiting on the queue.
C27_AcknowledgedOnce ==
    /\ [](/\ unfinished >= 0
          /\ unfinished = Len(queue) + Cardinality(AtProbe)
          /\ (nput - unfinished) = WordsDequeued + SentinelsDequeued - Cardinality(AtProbe)
          /\ unfinished = 0 => (queue = << >> /\ AtProbe = {}))
    /\ [][ \A w \in DOMAIN wpc :
              CancelStep(w) =>
                 unfinished' = (IF wpc[w] \in {"dns", "ip", "http", "size"}
                                THEN unfinished - 1 ELSE unfinished) ]_vars

C27_Witness ==
    /\ interrupted /\ stdout = "broken"
    /\ workers = 1 /\ words = << "a", "b" >> /\ checked_count = 2
    /\ wpc[1] = "cancelled" /\ queue = << None >> /\ unfinished = 1
    /\ Stored = {Host("a")}

\* The step is the one in which queue.join() returns to run().
JoinReturns == mainPc = "join" /\ mainPc' = "gather" /\ ~interrupted'

\* The tasks on which cancel() has been called.
CancelledTasks == { w \in DOMAIN cancelRequested : cancelRequested[w] }

\* C28: in the step in which join() returns to a run that was not
\* interrupted, every worker task has already ended by leaving its loop on a
\* sentinel, and the cancellation loop that follows calls cancel() on no
\* task; a run that is not interrupted never has a cancelled task.
C28_DrainFindsWorkersExited ==
    /\ [][ JoinReturns =>
              /\ \A w \in DOMAIN wpc : wpc[w] = "exited"
              /\ CancelledTasks' = {} ]_vars
    /\ [](Uninterrupted => (CancelledTasks = {} /\ \A w \in DOMAIN wpc : wpc[w] # "cancelled"))

C28_Witness ==
    /\ mainPc = "gather" /\ Uninterrupted
    /\ workers = 2 /\ words = << "b", "a" >>
    /\ \A w \in DOMAIN wpc : wpc[w] = "exited"
    /\ CancelledTasks = {} /\ Stored = Hosts

\* The step worker w takes when the await it is suspended at returns.
Resumes(w) ==
    DnsReturns(w) \/ IpReturns(w) \/ HttpReturns(w) \/ SizeReturns(w)

SourceOrder == [i \in 1..(Len(words) + workers) |-> IF i <= Len(words) THEN Some(words[i]) ELSE None]

\* C30: the queue always holds, in order, the stretch of the source order
\* that has been enqueued and not yet dequeued; the step that dequeues a
\* candidate takes the first word of the wordlist not yet dequeued and hands
\* it to the worker taking the step, and a sentinel is dequeued only when
\* every word has been.
C30_DequeuedInSourceOrder ==
    /\ [](/\ nput <= Len(SourceOrder)
          /\ queue = [i \in 1..Len(queue) |-> SourceOrder[nput - Len(queue) + i]])
    /\ [][ Dequeues =>
              IF Head(queue) # None
              THEN /\ Head(queue) = Some(words[WordsDequeued + 1])
                   /\ \E w \in DOMAIN word :
                         /\ word'[w] = Head(queue)
                         /\ \A v \in DOMAIN word \ {w} : word'[v] = word[v] /\ wpc'[v] = wpc[v]
              ELSE WordsDequeued = Len(words) ]_vars

C30_Witness ==
    /\ workers = 2 /\ words = << "b", "a" >>
    /\ word[1] = Some("b") /\ word[2] = Some("a")
    /\ queue = << None, None >>

\* The found row that shows what the table holds for host h.
RowOf(h, table) ==
    FoundRow(h, table[h].proto, table[h].status, table[h].ip, table[h].size)

\* The hosts of the found rows of the report, from top to bottom.
RECURSIVE FoundHosts(_)
FoundHosts(rows) ==
    IF rows = << >> THEN << >>
    ELSE (IF Head(rows).kind = "found" THEN << Head(rows).host >> ELSE << >>)
            \o FoundHosts(Tail(rows))

\* C31: the step in which a worker writes a key of the table (creating the
\* entry or enriching it) also prints, before the worker suspends at any
\* further probe, a found row showing exactly what was stored, and that row
\* is the last of the report; the step that stores a host for the first time
\* adds its row below everything reported so far, leaving the rows above as
\* they were: first rows enter the report in discovery order.
C31_StoredThenReported ==
    [][ \A w \in Tasks : \A h \in Hosts :
           Writes(w, h) =>
              /\ h \in DOMAIN found_subdomains'
              /\ terminal'.lines # << >>
              /\ terminal'.lines[Len(terminal'.lines)] = RowOf(h, found_subdomains')
              /\ h \notin Stored =>
                    /\ Len(terminal'.lines) > Len(terminal.lines)
                    /\ SubSeq(terminal'.lines, 1, Len(terminal.lines)) = terminal.lines
                    /\ \A i \in (Len(terminal.lines) + 1)..(Len(terminal'.lines) - 1) :
                          terminal'.lines[i].kind # "found" ]_vars

C31_Witness ==
    /\ mainPc = "returned" /\ Uninterrupted /\ workers = 2
    /\ words = << "a", "b" >>
    /\ FoundHosts(terminal.lines) = << Host("b"), Host("a") >>
    /\ writes[Host("a")] = << 1, 1 >> /\ writes[Host("b")] = << 2 >>
    /\ terminal.lines[Len(terminal.lines) - 1] = RowOf(Host("a"), found_subdomains)

\* The candidates whose pipeline has finished: the words dequeued less those
\* still in a pipeline.
CompletedCount == WordsDequeued - Cardinality(AtProbe)

\* The step renders a progress bar: when it is over, the cursor's row shows
\* a bar that it did not show before.
Renders == terminal'.cur # None /\ terminal'.cur # terminal.cur

\* max(1, workerCount div 10)
EveryNth == IF workers \div 10 < 1 THEN 1 ELSE workers \div 10

\* C32: a progress bar is rendered exactly in the steps in which a candidate
\* completes as the first or as a max(1, workers div 10)-th one, and the bar
\* shows the number of candidates completed.
C32_BarPerCompletedCandidate ==
    [][ LET due == /\ CompletedCount' > CompletedCount
                   /\ (CompletedCount' = 1 \/ CompletedCount' % EveryNth = 0)
        IN /\ Renders <=> due
           /\ Renders => terminal'.cur = Some(CompletedCount') ]_vars

\* ---------------------------------------------------------------- C33
\* The step in which the pipeline of worker w ends without a store: check_dns
\* returned false (line 142 of core.py), or, when http_only, check_http
\* returned None (line 127); the worker goes to its finally block.
SkipStep(w) ==
    /\ OthersStill(w)
    /\ unfinished' < unfinished
    /\ \/ ~HttpOnlyPipeline /\ At(w, "dns") /\ wpc'[w] # "ip"
       \/ HttpOnlyPipeline /\ At(w, "http") /\ wpc'[w] # "ip"

\* C33: in an uninterrupted run a candidate whose pipeline ends as Skipped
\* leaves the table without an entry for its host, and when the run has
\* returned every candidate dequeued has finished its pipeline: no worker is
\* left in a probe and every word of the list has been dequeued and completed.
C33_SkippedOrStored ==
    /\ [][ \A w \in Tasks :
              (Uninterrupted /\ SkipStep(w)) => subdomain(w) \notin Stored' ]_vars
    /\ []((mainPc = "returned" /\ Uninterrupted /\ words # << >>) =>
             /\ AtProbe = {}
             /\ CompletedCount = Len(words))

\* ---------------------------------------------------------------- C34
\* C34: with dns_only set and http_only not set no worker is ever suspended
\* in check_http or in get_content_size and no worker holds a check_http
\* result, and every entry of the table has no protocol, no status and no size.
C34_DnsOnlyProbesNothingElse ==
    (dns_only /\ ~http_only) =>
       /\ \A w \in Tasks : wpc[w] \notin {"http", "size"} /\ result[w] = None
       /\ \A h \in Stored :
             /\ found_subdomains[h].proto = None
             /\ found_subdomains[h].status = None
             /\ found_subdomains[h].size = None

C34_Witness ==
    /\ dns_only /\ ~http_only
    /\ mainPc = "returned" /\ Uninterrupted
    /\ words = << "a", "b" >>
    /\ Stored = {Host("a"), Host("b")}
    /\ found_subdomains[Host("a")] = Entry(None, None, Some(Address), None)
    /\ found_subdomains[Host("b")] = Entry(None, None, None, None)

\* ---------------------------------------------------------------- C35
\* A worker has left its loop through the outer "except Exception".
WorkerFailed == \E w \in DOMAIN wpc : wpc[w] = "failed"

\* run() is past "await queue.join()": everything was enqueued and the drain
\* of the queue was observed.
DrainObserved == mainPc \in {"gather", "returned", "raised"} /\ Uninterrupted

\* C35: under fair scheduling, once a worker has left its loop through the
\* generic exception handler, the run that nobody interrupts still gets past
\* queue.join(): the words and the sentinels are all enqueued and the drain
\* of the queue is observed.
C35_RunEndsAfterWorkerFailure == WorkerFailed ~> (DrainObserved \/ interrupted)

\* ---------------------------------------------------------------- C36
\* C36: whatever worker count the engine is constructed with, 0 and negative
\* ones included, self.workers is the count when it is positive and 1 when it
\* is not, the queue's capacity is at least 2, the progress interval is at
\* least 1 and the pool has self.workers tasks; a run that returns without an
\* interruption has dequeued every candidate and drained the queue, and under
\* fair scheduling every run comes to an end.
C36_AtLeastOneWorker ==
    /\ [](/\ workers >= 1
          /\ workers_arg >= 1 => workers = workers_arg
          /\ workers_arg < 1 => workers = 1
          /\ maxsize >= 2
          /\ status_update_interval >= 1
          /\ DOMAIN wpc = 1..workers
          /\ (mainPc = "returned" /\ Uninterrupted) =>
                (checked_count = Len(words) /\ unfinished = 0 /\ queue = << >>))
    /\ <>Terminated

C36_Witness ==
    /\ workers_arg < 0 /\ workers = 1 /\ maxsize = 2
    /\ mainPc = "returned" /\ Uninterrupted
    /\ words = << "a", "b" >> /\ checked_count = 2
    /\ Stored = {Host("a"), Host("b")}

\* ---------------------------------------------------------------- C37
\* The protocol of an entry is set exactly when its status is, and its size
\* is set only when its protocol is.
WellFormed(entry) ==
    /\ entry.proto # None <=> entry.status # None
    /\ entry.size # None => entry.proto # None

\* C37: every entry of the table has its protocol set if and only if its
\* status is set, and its size set only if its protocol is: display_found,
\* which is called with the values just stored, and save_results, which is
\* handed the table, read the status whenever the protocol is set and never
\* find a protocol without a status.
C37_ProtocolIffStatus == \A h \in Stored : WellFormed(found_subdomains[h])

C37_Witness ==
    /\ mainPc = "returned" /\ Uninterrupted
    /\ ~dns_only /\ ~http_only
    /\ words = << "a", "b" >>
    /\ Stored = {Host("a"), Host("b")}
    /\ found_subdomains[Host("a")] = Entry(Some("https"), Some(200), Some(Address), Some(512))
    /\ found_subdomains[Host("b")] = Entry(None, None, Some(Address), None)

====
